---------------------------- MODULE Spec2Model ----------------------------
(***************************************************************************)
(* State-machine model of frontend/src/App.js (EduPath client).            *)
(*                                                                         *)
(* The program is a single-threaded React application.  Every event        *)
(* handler, effect and promise callback runs to completion, so each is one *)
(* action.  The suspension points are the axios calls: a request is put in *)
(* flight by the action that issues it and answered by a later action.     *)
(* A request remembers whether the component instance that issued it is    *)
(* still mounted (live); a state update addressed to an instance that is   *)
(* no longer mounted is dropped, as React drops it.                        *)
(***************************************************************************)
EXTENDS Naturals, Sequences, FiniteSets, Bags, TLC

\* ------------------------------------------------------------------ bounds
\* Login and registration requests that may be in flight at once (those of
\* unmounted AuthForm instances included).
MaxAuthReqs == 2
\* Recommendation requests that may be in flight at once (those of unmounted
\* CareerRecommendations instances included).
MaxRecReqs == 2
\* Length of the raw texts the normalization is checked on.
MaxLen == 4
\* Lengths of the texts typed into the inputs of the login and registration
\* form.
MaxEmailLen == 6
MaxPasswordLen == 6
MaxNameLen == 2

\* ------------------------------------------------------------------ values
\* localStorage.getItem returns null for a missing key; the Authorization
\* header of axios.defaults.headers.common is undefined when not set.
NoToken == "null"
NoHeader == "undefined"
\* useState(null) of App.user
NoUser == [absent |-> TRUE]
\* a user object without preferred_language
NoLang == "undefined"

\* Tokens the remote service hands out (access_token of a response).
Tokens == {"t1", "t2"}

\* User objects the remote service returns (response.data.user, or the body of
\* /auth/me).  preferred_language may be missing, and is whatever the service
\* has on record.
Identities ==
  { [id |-> 1, role |-> "student", preferred_language |-> "hi"],
    [id |-> 2, role |-> "admin",   preferred_language |-> NoLang],
    [id |-> 3, role |-> "parent",  preferred_language |-> "fr"] }

\* const languages (keys)
languages == {"en", "hi", "ks"}

\* tab ids of Dashboard.tabs
tabs == {"overview", "career", "scholarships", "opportunities", "profile"}

\* detail messages of a rejected login or registration (err.response.data.detail);
\* NoDetail is a failure without response body (transport failure).
NoDetail == "undefined"
Details == {"Invalid credentials", NoDetail}

\* How GET /auth/me fails: the service rejects the token (401), or the call
\* fails in transport or with a 5xx answer.
Failures == {"Unauthorized", "NetworkOrServerError"}

\* Payloads of the three dashboard endpoints.
DashKinds == {"stats", "scholarships", "opportunities"}
EmptyStats == [counters |-> <<>>]
DashInitial(kind) ==
  IF kind = "stats" THEN EmptyStats ELSE <<>>
DashPayloads(kind) ==
  CASE kind = "stats"         -> { [counters |-> <<7>>] }
    [] kind = "scholarships"  -> { <<"sch1">> }
    [] kind = "opportunities" -> { <<"opp1", "opp2">> }

\* Result lists of the recommendation endpoint (response.data.recommendations).
RecResults == { <<"r1">>, <<"r2", "r3">> }

\* ------------------------------------------------------------ text helpers
\* A text is a sequence of one-character strings.
Whitespace == {" ", "\t"}
Alphabet == {"a", "b", " ", "\t", ","}

RECURSIVE split(_, _)
\* String.prototype.split(','): acc is the segment being read.
split(s, acc) ==
  IF s = <<>> THEN <<acc>>
  ELSE IF Head(s) = "," THEN <<acc>> \o split(Tail(s), <<>>)
       ELSE split(Tail(s), Append(acc, Head(s)))

RECURSIVE trimStart(_)
trimStart(s) ==
  IF s /= <<>> /\ Head(s) \in Whitespace THEN trimStart(Tail(s)) ELSE s

RECURSIVE trimEnd(_)
trimEnd(s) ==
  IF s /= <<>> /\ s[Len(s)] \in Whitespace
  THEN trimEnd(SubSeq(s, 1, Len(s) - 1)) ELSE s

\* String.prototype.trim
trim(s) == trimEnd(trimStart(s))

\* s => s : the empty string is falsy
truthy(s) == s /= <<>>

\* Variant: the filter is left out, field.split(',').map(s => s.trim())
normalizeField_noFilter(text) ==
  LET parts == split(text, <<>>)
  IN [i \in 1..Len(parts) |-> trim(parts[i])]

\* field.split(',').map(s => s.trim()).filter(s => s)
normalizeField(text) ==
  LET parts == split(text, <<>>)
      trimmed == [i \in 1..Len(parts) |-> trim(parts[i])]
  IN SelectSeq(trimmed, truthy)


\* ------------------------------------------------------ validation schemas
\* z.string().min(6, ...) and z.string().min(2, ...)
PasswordMin == 6
FullNameMin == 2
\* z.enum(['student', 'parent', 'counselor', 'admin']), the options of the select
Roles == {"student", "parent", "counselor", "admin"}

\* Texts of the email input.
EmailAlphabet == {"a", "@", "."}
At(s) == {i \in 1..Len(s) : s[i] = "@"}
Dots(s) == {i \in 1..Len(s) : s[i] = "."}
LocalPart(s) == SubSeq(s, 1, (CHOOSE i \in At(s) : TRUE) - 1)
DomainPart(s) == SubSeq(s, (CHOOSE i \in At(s) : TRUE) + 1, Len(s))
\* labels separated by single dots, none of them empty
DotLabels(d) ==
  /\ d /= <<>>
  /\ d[1] /= "." /\ d[Len(d)] /= "."
  /\ \A i \in 1..(Len(d) - 1) : ~(d[i] = "." /\ d[i + 1] = ".")

\* <input type="email">: the browser delivers the submit event only when the
\* value is empty or an address (local part, "@", labels separated by dots)
typeEmail(s) ==
  \/ s = <<>>
  \/ /\ Cardinality(At(s)) = 1
     /\ LocalPart(s) /= <<>>
     /\ DotLabels(DomainPart(s))

\* z.string().email(): no leading dot, no two dots in a row, a local part that
\* does not end with a dot, "@", and at least two labels of which the last has
\* two letters or more
email(s) ==
  /\ Cardinality(At(s)) = 1
  /\ s[1] /= "."
  /\ \A i \in 1..(Len(s) - 1) : ~(s[i] = "." /\ s[i + 1] = ".")
  /\ LocalPart(s) /= <<>>
  /\ LocalPart(s)[Len(LocalPart(s))] /= "."
  /\ DotLabels(DomainPart(s))
  /\ Dots(DomainPart(s)) /= {}
  /\ \E i \in Dots(DomainPart(s)) : Len(DomainPart(s)) - i >= 2 /\
        \A j \in Dots(DomainPart(s)) : j <= i

\* the message of each check
Messages ==
  [email |-> "Invalid email address",
   password |-> "Password must be at least 6 characters",
   full_name |-> "Full name must be at least 2 characters",
   role |-> "Invalid enum value"]

\* zodResolver(schema): the errors object, one message for each field whose
\* check fails
Errors(violated) == [f \in violated |-> Messages[f]]
NoErrors == Errors({})

loginSchema(data) ==
  Errors({f \in {"email", "password"} :
            \/ f = "email" /\ ~email(data.email)
            \/ f = "password" /\ Len(data.password) < PasswordMin})

registerSchema(data) ==
  Errors({f \in {"email", "password", "full_name", "role"} :
            \/ f = "email" /\ ~email(data.email)
            \/ f = "password" /\ Len(data.password) < PasswordMin
            \/ f = "full_name" /\ Len(data.full_name) < FullNameMin
            \/ f = "role" /\ data.role \notin Roles})

\* ------------------------------------------------------------------- state
VARIABLES
  phase,            \* "boot": before App's mount effect; "run"; "crashed"
  storageAvail,     \* whether window.localStorage can be used at all
  token,            \* localStorage item 'token'
  authHeader,       \* axios.defaults.headers.common['Authorization']
  user,             \* App.user
  loading,          \* App.loading
  authMode,         \* App.authMode: "null" (landing), "true" (login), "false" (register)
  currentLanguage,  \* App.currentLanguage
  verifyPending,    \* GET /auth/me in flight
  authForm,         \* state of the AuthForm instance: loading, error, and the
                    \* errors of useForm's formState
  dash,             \* state of the Dashboard instance: activeTab, stats, scholarships, opportunities
  loader,           \* fetchDashboardData of the mounted Dashboard: the three results and Promise.all
  rec,              \* state of the CareerRecommendations instance: loading, recommendations, formData
  authReqs,         \* POST /auth/login and /auth/register in flight (bag)
  dashReqs,         \* GET /dashboard/stats, /scholarships, /opportunities/nearby in flight,
                    \* of the mounted Dashboard (bag)
  recReqs,          \* POST /career/recommendations in flight (bag)
  origin,           \* the answer the session comes from: its token and its user
  last              \* the step taken last: what ran and how it ended (an answer to an
                    \* unmounted instance that changes nothing is recorded as such)

vars == << phase, storageAvail, token, authHeader, user, loading, authMode,
           currentLanguage, verifyPending, authForm, dash, loader, rec,
           authReqs, dashReqs, recReqs, origin, last >>

session == << token, authHeader, user, currentLanguage >>
appVars == << phase, storageAvail, loading, authMode, verifyPending >>
netVars == << authReqs, dashReqs, recReqs >>

\* For a rejected login or registration, response is the detail of the answer.
\* prev: the recommendations held before an answer to the mounted form, or
\* the language before a session is established; response: the recommendations
\* of that answer, or the user object of the answer that establishes a session
RecEv(name, outcome, prev, response) ==
  [ev |-> name, outcome |-> outcome, prev |-> prev, response |-> response]
Ev(name, outcome) == RecEv(name, outcome, <<>>, <<>>)
\* data: the values a login or registration form was submitted with
SubmitEv(name, outcome, data) ==
  [ev |-> name, outcome |-> outcome, prev |-> <<>>, response |-> <<>>,
   data |-> data]

\* An answer that delivers a session: response.data of a login or registration
\* (access_token, user), or the body of /auth/me for the token it was asked with
NoAnswer == [absent |-> TRUE]
Answer(tok, u) == [token |-> tok, user |-> u]

\* `Bearer ${token}`
Bearer(tok) == "Bearer " \o tok

\* userData.preferred_language || 'en'
PreferredOrEn(u) ==
  IF u.preferred_language = NoLang THEN "en" ELSE u.preferred_language

\* --------------------------------------------------------------- rendering
\* const t = (key) => translations[currentLanguage][key] || key : translations
\* has the keys of languages; for another language translations[...] is
\* undefined and the first t(...) of a render throws.  No error boundary
\* catches it: React unmounts the whole tree.
Renders(lang) == lang \in languages

\* App render: nothing but the spinner while loading; a crashed tree renders nothing.
Rendered == phase = "run" /\ ~loading
\* {!user ? (authMode === null ? <LandingPage/> : <AuthForm/>) : <Dashboard/>}
LandingMounted == Rendered /\ user = NoUser /\ authMode = "null"
AuthFormMounted == Rendered /\ user = NoUser /\ authMode /= "null"
DashboardMounted == Rendered /\ user /= NoUser
\* {activeTab === 'career' && <CareerRecommendations user={user} />}
RecMounted == DashboardMounted /\ dash.activeTab = "career"

\* ------------------------------------------------- component initial state
\* AuthForm: useState(false), useState(''), useForm(...)
AuthFormInitial == [loading |-> FALSE, error |-> "", errors |-> NoErrors]

\* Dashboard: useState('overview'), useState({}), useState([]), useState([])
DashboardInitial ==
  [activeTab |-> "overview", stats |-> DashInitial("stats"),
   scholarships |-> DashInitial("scholarships"),
   opportunities |-> DashInitial("opportunities")]

\* CareerRecommendations: useState(false), useState([]), useState({...})
FormDataInitial ==
  [interests |-> <<>>, academic_level |-> "12th", subjects |-> <<>>,
   strengths |-> <<>>, career_goals |-> <<>>]
RecInitial ==
  [loading |-> FALSE, recommendations |-> <<>>, formData |-> FormDataInitial]

\* fetchDashboardData: the three axios.get promises and the Promise.all over them
LoaderIdle == [status |-> [k \in DashKinds |-> "none"],
               data |-> [k \in DashKinds |-> DashInitial(k)],
               all |-> "none"]
LoaderStarted == [status |-> [k \in DashKinds |-> "pending"],
                  data |-> [k \in DashKinds |-> DashInitial(k)],
                  all |-> "pending"]

\* the three axios.get calls of fetchDashboardData
DashRequests == SetToBag(DashKinds)

\* the requests of a bag, all marked as issued by an instance now unmounted
Orphaned(reqs) ==
  LET dead(r) == [r EXCEPT !.live = FALSE]
      image == {dead(r) : r \in BagToSet(reqs)}
  IN [o \in image |->
        (IF BagIn(o, reqs) THEN reqs[o] ELSE 0)
        + (IF BagIn([o EXCEPT !.live = TRUE], reqs)
           THEN reqs[[o EXCEPT !.live = TRUE]] ELSE 0)]

\* -------------------------------------------------------------------- Init
Init ==
  /\ phase = "boot"
  /\ storageAvail \in BOOLEAN
  /\ token \in (IF storageAvail THEN Tokens \cup {NoToken} ELSE {NoToken})
  /\ authHeader = NoHeader
  /\ user = NoUser
  /\ loading = TRUE
  /\ authMode = "null"
  /\ currentLanguage = "en"
  /\ verifyPending = FALSE
  /\ authForm = AuthFormInitial
  /\ dash = DashboardInitial
  /\ loader = LoaderIdle
  /\ rec = RecInitial
  /\ authReqs = EmptyBag
  /\ dashReqs = EmptyBag
  /\ recReqs = EmptyBag
  /\ origin = NoAnswer
  /\ last = Ev("init", "")

\* ------------------------------------------------- mounting and unmounting
\* The component tree is a function of App's state.  After a handler has
\* changed App.user / App.authMode / App.loading or Dashboard.activeTab, a
\* component that appears is a fresh instance with its initial state (and a
\* fresh Dashboard runs its mount effect, fetchDashboardData); a component
\* that stays keeps its state; the state of one that disappears is gone, and
\* the requests it has in flight are answered to an unmounted instance.
\* Parameters: whether the component is in the tree before and after.

\* <AuthForm isLogin={authMode} .../> : the same element for login and register
RemountAuthForm(before, after) ==
  IF before /\ after
  THEN UNCHANGED << authForm, authReqs >>
  ELSE /\ authForm' = AuthFormInitial
       /\ authReqs' = Orphaned(authReqs)

\* Variant: activeTab is kept outside the component and survives its unmount
RemountDashboard_keepsTab(before, after) ==
  IF before /\ after
  THEN UNCHANGED << dash, loader, dashReqs >>
  ELSE /\ dash' = [DashboardInitial EXCEPT !.activeTab = dash.activeTab]
       /\ loader' = IF after THEN LoaderStarted ELSE LoaderIdle
       /\ dashReqs' = IF after THEN DashRequests ELSE EmptyBag

\* <Dashboard user={user} /> and its useEffect(..., []).  The answers to the
\* requests of an unmounted Dashboard reach nothing, and are not kept.
RemountDashboard(before, after) ==
  IF before /\ after
  THEN UNCHANGED << dash, loader, dashReqs >>
  ELSE /\ dash' = DashboardInitial
       /\ loader' = IF after THEN LoaderStarted ELSE LoaderIdle
       /\ dashReqs' = IF after THEN DashRequests ELSE EmptyBag

\* Variant: the form is hidden, not unmounted, and keeps its state and requests
RemountRec_keepsState(before, after) ==
  UNCHANGED << rec, recReqs >>

\* <CareerRecommendations user={user} />
RemountRec(before, after) ==
  IF before /\ after
  THEN UNCHANGED << rec, recReqs >>
  ELSE /\ rec' = RecInitial
       /\ recReqs' = Orphaned(recReqs)

\* --------------------------------------------------------------------- App
\* useEffect(() => {...}, []) of App: read the stored token and verify it
AppMount ==
  /\ phase = "boot"
  /\ \/ \* localStorage is not usable: the effect throws, React unmounts the tree
        /\ ~storageAvail
        /\ phase' = "crashed"
        /\ last' = Ev("AppMount", "throw")
        /\ UNCHANGED << authHeader, loading, verifyPending >>
     \/ \* if (token): attach it and ask /auth/me
        /\ storageAvail /\ token /= NoToken
        /\ phase' = "run"
        /\ authHeader' = Bearer(token)
        /\ verifyPending' = TRUE
        /\ last' = Ev("AppMount", "verify")
        /\ UNCHANGED loading
     \/ \* else setLoading(false)
        /\ storageAvail /\ token = NoToken
        /\ phase' = "run"
        /\ loading' = FALSE
        /\ last' = Ev("AppMount", "no token")
        /\ UNCHANGED << authHeader, verifyPending >>
  /\ UNCHANGED << storageAvail, token, user, authMode, currentLanguage, origin,
                  authForm, dash, loader, rec, netVars >>

\* Variant: the .then without the finally, App stays in its loading state
VerifyFulfilled_staysLoading(u) ==
  /\ verifyPending
  /\ verifyPending' = FALSE
  /\ user' = u
  /\ currentLanguage' = PreferredOrEn(u)
  /\ origin' = Answer(token, u)
  /\ last' = RecEv("verify", "fulfilled", currentLanguage, u)
  /\ UNCHANGED << phase, loading, storageAvail, token, authHeader, authMode,
                  authForm, dash, loader, rec, netVars >>

\* .then(response => {...}).finally(() => setLoading(false))
VerifyFulfilled(u) ==
  /\ verifyPending
  /\ verifyPending' = FALSE
  /\ user' = u
  /\ currentLanguage' = PreferredOrEn(u)
  /\ loading' = FALSE
  /\ phase' = IF Renders(PreferredOrEn(u)) THEN phase ELSE "crashed"
  /\ RemountDashboard(FALSE, Renders(PreferredOrEn(u)))
  /\ origin' = Answer(token, u)
  /\ last' = RecEv("verify", "fulfilled", currentLanguage, u)
  /\ UNCHANGED << storageAvail, token, authHeader, authMode, authForm,
                  rec, authReqs, recReqs >>

\* Variant: the catch block removes the stored token and leaves the header
VerifyRejected_keepsHeader(reason) ==
  /\ verifyPending
  /\ verifyPending' = FALSE
  /\ token' = NoToken
  /\ loading' = FALSE
  /\ last' = Ev("verify", reason)
  /\ UNCHANGED << phase, storageAvail, authHeader, user, authMode, origin,
                  currentLanguage, authForm, dash, loader, rec, netVars >>

\* Variant: the catch block without the finally, App stays in its loading state
VerifyRejected_staysLoading(reason) ==
  /\ verifyPending
  /\ verifyPending' = FALSE
  /\ token' = NoToken
  /\ authHeader' = NoHeader
  /\ last' = Ev("verify", reason)
  /\ UNCHANGED << phase, storageAvail, loading, user, authMode, currentLanguage,
                  origin,
                  authForm, dash, loader, rec, netVars >>

\* .catch(() => {...}).finally(() => setLoading(false))
VerifyRejected(reason) ==
  /\ verifyPending
  /\ verifyPending' = FALSE
  /\ token' = NoToken
  /\ authHeader' = NoHeader
  /\ loading' = FALSE
  /\ last' = Ev("verify", reason)
  /\ UNCHANGED << phase, storageAvail, user, authMode, currentLanguage, origin,
                  authForm, dash, loader, rec, netVars >>

\* Variant: a language other than the default is kept
handleAuthSuccess_keepsLanguage(userData) ==
  /\ user' = userData
  /\ currentLanguage' = IF currentLanguage = "en" THEN PreferredOrEn(userData)
                        ELSE currentLanguage
  /\ authMode' = "null"

\* Variant: a user already present is not replaced
handleAuthSuccess_keepsUser(userData) ==
  /\ user' = IF user = NoUser THEN userData ELSE user
  /\ currentLanguage' = PreferredOrEn(userData)
  /\ authMode' = "null"

\* Variant: without setAuthMode(null)
handleAuthSuccess_keepsAuthMode(userData) ==
  /\ user' = userData
  /\ currentLanguage' = PreferredOrEn(userData)
  /\ authMode' = authMode

\* handleAuthSuccess(userData), called by AuthForm.onSubmit as onSuccess
handleAuthSuccess(userData) ==
  /\ user' = userData
  /\ currentLanguage' = PreferredOrEn(userData)
  /\ authMode' = "null"

\* Variant: logout removes the stored token and leaves the header
handleLogout_keepsHeader ==
  /\ DashboardMounted
  /\ token' = NoToken
  /\ user' = NoUser
  /\ authMode' = "null"
  /\ RemountDashboard(TRUE, FALSE)
  /\ RemountRec(RecMounted, FALSE)
  /\ origin' = NoAnswer
  /\ last' = Ev("logout", "")
  /\ UNCHANGED << phase, storageAvail, loading, currentLanguage, verifyPending,
                  authHeader, authForm, authReqs >>

\* Variant: logout also resets the language, setCurrentLanguage('en')
handleLogout_resetsLanguage ==
  /\ DashboardMounted
  /\ token' = NoToken
  /\ authHeader' = NoHeader
  /\ user' = NoUser
  /\ authMode' = "null"
  /\ currentLanguage' = "en"
  /\ RemountDashboard(TRUE, FALSE)
  /\ RemountRec(RecMounted, FALSE)
  /\ origin' = NoAnswer
  /\ last' = Ev("logout", "")
  /\ UNCHANGED << phase, storageAvail, loading, verifyPending, authForm,
                  authReqs >>

\* handleLogout, the onLogout of Navigation (rendered only when user is set)
handleLogout ==
  /\ DashboardMounted
  /\ token' = NoToken
  /\ authHeader' = NoHeader
  /\ user' = NoUser
  /\ authMode' = "null"
  /\ RemountDashboard(TRUE, FALSE)
  /\ RemountRec(RecMounted, FALSE)
  /\ origin' = NoAnswer
  /\ last' = Ev("logout", "")
  /\ UNCHANGED << phase, storageAvail, loading, currentLanguage, verifyPending,
                  authForm, authReqs >>

\* Variant: Dashboard is keyed by the language, a change mounts a fresh one
setCurrentLanguage_remounts(code) ==
  /\ Rendered
  /\ currentLanguage' = code
  /\ RemountDashboard(DashboardMounted /\ code = currentLanguage, DashboardMounted)
  /\ RemountRec(RecMounted /\ code = currentLanguage, FALSE)
  /\ last' = Ev("language", code)
  /\ UNCHANGED << appVars, origin, token, authHeader, user, authForm, authReqs >>

\* LanguageSelector onChange: setCurrentLanguage(e.target.value)
setCurrentLanguage(code) ==
  /\ Rendered
  /\ currentLanguage' = code
  /\ last' = Ev("language", code)
  /\ UNCHANGED << appVars, origin, token, authHeader, user, authForm, dash, loader,
                  rec, netVars >>

\* setAuthMode: the LandingPage buttons, the login/register toggle, Back to Home
setAuthMode(mode) ==
  /\ Rendered /\ user = NoUser
  /\ \/ LandingMounted /\ mode \in {"true", "false"}
     \/ AuthFormMounted /\ mode = (IF authMode = "true" THEN "false" ELSE "true")
     \/ AuthFormMounted /\ mode = "null"
  /\ authMode' = mode
  /\ RemountAuthForm(authMode /= "null", mode /= "null")
  /\ last' = Ev("authMode", "")
  /\ UNCHANGED << phase, storageAvail, loading, verifyPending, origin, session,
                  dash,
                  loader, rec, dashReqs, recReqs >>

\* ---------------------------------------------------------------- AuthForm
\* axios.post(`${API}${endpoint}`, data): the answer is handled alike for
\* both endpoints, so a request in flight is told apart only by its issuer
AuthRequest == [live |-> TRUE]

\* the values of the inputs a form submission carries; the login form has no
\* inputs for full_name and role
FormData(e, p, n, r) == [email |-> e, password |-> p, full_name |-> n, role |-> r]
LoginData(e, p) == FormData(e, p, <<>>, "student")

\* const schema = isLogin ? loginSchema : registerSchema
schema(data) ==
  IF authMode = "true" THEN loginSchema(data) ELSE registerSchema(data)

\* AuthForm.onSubmit up to the await
onSubmit(data) ==
  /\ BagCardinality(authReqs) < MaxAuthReqs
  /\ authForm' = [authForm EXCEPT !.loading = TRUE, !.error = "",
                                  !.errors = NoErrors]
  /\ authReqs' = authReqs (+) SetToBag({AuthRequest})
  /\ last' = SubmitEv("authSubmit", "", data)
  /\ UNCHANGED << appVars, origin, session, dash, loader, rec, dashReqs, recReqs >>

\* the resolver has found errors: they become formState.errors, and onSubmit
\* is not called
onInvalid(data) ==
  /\ authForm' = [authForm EXCEPT !.errors = schema(data)]
  /\ last' = SubmitEv("authInvalid", "", data)
  /\ UNCHANGED << appVars, origin, session, dash, loader, rec, netVars >>

\* Variant: onSubmit is called whatever the resolver has found
handleSubmitForm_noResolver(data) ==
  /\ AuthFormMounted
  /\ ~authForm.loading
  /\ typeEmail(data.email)
  /\ onSubmit(data)

\* <form onSubmit={handleSubmit(onSubmit)}> of AuthForm: the submit button is
\* disabled={loading}, the browser checks the email input, then useForm's
\* handleSubmit runs the resolver and calls onSubmit when it finds no error
handleSubmitForm(data) ==
  /\ AuthFormMounted
  /\ ~authForm.loading
  /\ typeEmail(data.email)
  /\ \/ schema(data) = NoErrors /\ onSubmit(data)
     \/ schema(data) /= NoErrors /\ onInvalid(data)

\* AuthForm.onSubmit after the await, the request fulfilled: the try block,
\* then finally.  stored = FALSE: localStorage.setItem throws (quota), which
\* the catch block turns into the form's error.
onSubmitFulfilled(req, access_token, userData, stored) ==
  /\ BagIn(req, authReqs)
  /\ \/ /\ stored /\ phase = "run"
        /\ token' = access_token
        /\ authHeader' = Bearer(access_token)
        /\ handleAuthSuccess(userData)
        /\ phase' = IF Renders(PreferredOrEn(userData)) THEN phase ELSE "crashed"
        /\ authForm' = AuthFormInitial
        /\ authReqs' = Orphaned(authReqs (-) SetToBag({req}))
        /\ RemountDashboard(DashboardMounted,
                            Renders(PreferredOrEn(userData)))
        /\ RemountRec(RecMounted,
                      RecMounted /\ Renders(PreferredOrEn(userData)))
        /\ origin' = Answer(access_token, userData)
        /\ last' = RecEv("authFulfilled", IF req.live THEN "live" ELSE "late",
                         currentLanguage, userData)
     \/ \* the tree is unmounted: the setters of onSuccess reach nothing
        /\ stored /\ phase = "crashed"
        /\ token' = access_token
        /\ authHeader' = Bearer(access_token)
        /\ authReqs' = authReqs (-) SetToBag({req})
        /\ origin' = Answer(access_token, userData)
        /\ last' = Ev("authStored", "crashed")
        /\ UNCHANGED << phase, user, currentLanguage, authMode, authForm, dash,
                        loader, dashReqs, rec, recReqs >>
     \/ /\ ~stored
        /\ authForm' = IF req.live
                       THEN [authForm EXCEPT !.loading = FALSE,
                                             !.error = "An error occurred"]
                       ELSE authForm
        /\ authReqs' = authReqs (-) SetToBag({req})
        /\ last' = IF req.live THEN Ev("setItem throws", "live") ELSE Ev("authFailed", "late")
        /\ UNCHANGED << phase, session, authMode, dash, loader, dashReqs, rec,
                        recReqs, origin >>
  /\ UNCHANGED << storageAvail, loading, verifyPending >>

\* Variant: the catch block also removes the stored token
onSubmitRejected_removesToken(req, detail) ==
  /\ BagIn(req, authReqs)
  /\ authReqs' = authReqs (-) SetToBag({req})
  /\ token' = NoToken
  /\ authForm' = IF req.live
                 THEN [authForm EXCEPT
                         !.loading = FALSE,
                         !.error = IF detail = NoDetail
                                   THEN "An error occurred" ELSE detail]
                 ELSE authForm
  /\ last' = IF req.live THEN RecEv("authRejected", "live", <<>>, detail)
             ELSE Ev("authFailed", "late")
  /\ UNCHANGED << appVars, origin, authHeader, user, currentLanguage, dash, loader,
                  rec, dashReqs, recReqs >>

\* Variant: the catch block shows a fixed message, setError('An error occurred')
onSubmitRejected_fixedMessage(req, detail) ==
  /\ BagIn(req, authReqs)
  /\ authReqs' = authReqs (-) SetToBag({req})
  /\ authForm' = IF req.live
                 THEN [authForm EXCEPT !.loading = FALSE,
                                       !.error = "An error occurred"]
                 ELSE authForm
  /\ last' = IF req.live THEN RecEv("authRejected", "live", <<>>, detail)
             ELSE Ev("authFailed", "late")
  /\ UNCHANGED << appVars, origin, session, dash, loader, rec, dashReqs, recReqs >>

\* AuthForm.onSubmit after the await, the request rejected: catch, then finally
onSubmitRejected(req, detail) ==
  /\ BagIn(req, authReqs)
  /\ authReqs' = authReqs (-) SetToBag({req})
  /\ authForm' = IF req.live
                 THEN [authForm EXCEPT
                         !.loading = FALSE,
                         !.error = IF detail = NoDetail
                                   THEN "An error occurred" ELSE detail]
                 ELSE authForm
  /\ last' = IF req.live THEN RecEv("authRejected", "live", <<>>, detail)
             ELSE Ev("authFailed", "late")
  /\ UNCHANGED << appVars, origin, session, dash, loader, rec, dashReqs, recReqs >>

\* --------------------------------------------------------------- Dashboard
\* Variant: the career form is mounted afresh by every selection of its tab
setActiveTab_remounts(tab) ==
  /\ DashboardMounted
  /\ dash' = [dash EXCEPT !.activeTab = tab]
  /\ RemountRec(FALSE, tab = "career")
  /\ last' = Ev("tab", tab)
  /\ UNCHANGED << appVars, origin, session, authForm, loader, authReqs, dashReqs >>

\* Variant: the effect depends on activeTab, every change of tab fetches again
setActiveTab_refetches(tab) ==
  /\ DashboardMounted
  /\ dash' = [dash EXCEPT !.activeTab = tab]
  /\ RemountRec(RecMounted, tab = "career")
  /\ loader' = IF tab = dash.activeTab THEN loader ELSE LoaderStarted
  /\ dashReqs' = IF tab = dash.activeTab THEN dashReqs ELSE DashRequests
  /\ last' = Ev("tab", tab)
  /\ UNCHANGED << appVars, origin, session, authForm, authReqs >>

\* onClick={() => setActiveTab(tab.id)} of the sidebar and the quick actions
setActiveTab(tab) ==
  /\ DashboardMounted
  /\ dash' = [dash EXCEPT !.activeTab = tab]
  /\ RemountRec(RecMounted, tab = "career")
  /\ last' = Ev("tab", tab)
  /\ UNCHANGED << appVars, origin, session, authForm, loader, authReqs, dashReqs >>

\* Promise.all([...]) after one more of its promises has settled
PromiseAll(all, status) ==
  IF all /= "pending" THEN all
  ELSE IF \E k \in DashKinds : status[k] = "rejected" THEN "rejected"
  ELSE IF \A k \in DashKinds : status[k] = "fulfilled" THEN "fulfilled"
  ELSE "pending"

\* Variant: each request has its own .then, which sets its collection
fetchDashboardData_eachOnItsOwn(kind, outcome, data) ==
  /\ BagIn(kind, dashReqs)
  /\ dashReqs' = dashReqs (-) SetToBag({kind})
  /\ LET status == [loader.status EXCEPT ![kind] = outcome]
         result == [loader.data EXCEPT ![kind] = data]
     IN /\ loader' = [status |-> status, data |-> result,
                      all |-> PromiseAll(loader.all, status)]
        /\ dash' = IF outcome = "fulfilled"
                   THEN [dash EXCEPT ![kind] = data]
                   ELSE dash
  /\ last' = Ev("dashResponse", "")
  /\ UNCHANGED << appVars, origin, session, authForm, rec, authReqs, recReqs >>

\* fetchDashboardData after the await: the three setters, or the catch block
fetchDashboardData(kind, outcome, data) ==
  /\ BagIn(kind, dashReqs)
  /\ dashReqs' = dashReqs (-) SetToBag({kind})
  /\ LET status == [loader.status EXCEPT ![kind] = outcome]
         result == [loader.data EXCEPT ![kind] = data]
         all == PromiseAll(loader.all, status)
     IN /\ loader' = [status |-> status, data |-> result, all |-> all]
        /\ dash' = IF loader.all = "pending" /\ all = "fulfilled"
                   THEN [dash EXCEPT
                           !.stats = result["stats"],
                           !.scholarships = result["scholarships"],
                           !.opportunities = result["opportunities"]]
                   ELSE dash
  /\ last' = Ev("dashResponse", "")
  /\ UNCHANGED << appVars, origin, session, authForm, rec, authReqs, recReqs >>

\* ---------------------------------------------------- CareerRecommendations
\* <option value=...> of the academic level select
AcademicLevels == {"10th", "12th", "Graduate", "Post Graduate"}
\* the inputs the form renders (there is none for career_goals)
TextFields == {"interests", "subjects", "strengths"}

\* onChange={(e) => setFormData({...formData, [field]: e.target.value})}
setFormData(field, value) ==
  /\ RecMounted
  /\ rec' = [rec EXCEPT !.formData[field] = value]
  /\ last' = Ev("formData", "")
  /\ UNCHANGED << appVars, origin, session, authForm, dash, loader, netVars >>

\* const requestData = {...} of handleSubmit
requestData(formData) ==
  [interests |-> normalizeField(formData.interests),
   academic_level |-> formData.academic_level,
   subjects |-> normalizeField(formData.subjects),
   strengths |-> normalizeField(formData.strengths),
   career_goals |-> normalizeField(formData.career_goals)]

RecRequest(data) == [live |-> TRUE, data |-> data]

\* Variant: the submit button is not disabled while loading
handleSubmit_notDisabled ==
  /\ RecMounted
  /\ BagCardinality(recReqs) < MaxRecReqs
  /\ rec' = [rec EXCEPT !.loading = TRUE]
  /\ recReqs' = recReqs (+) SetToBag({RecRequest(requestData(rec.formData))})
  /\ last' = Ev("recSubmit", "")
  /\ UNCHANGED << appVars, origin, session, authForm, dash, loader, authReqs, dashReqs >>

\* Variant: a form without interests is not sent
handleSubmit_rejectsEmpty ==
  /\ RecMounted
  /\ ~rec.loading
  /\ requestData(rec.formData).interests /= <<>>
  /\ BagCardinality(recReqs) < MaxRecReqs
  /\ rec' = [rec EXCEPT !.loading = TRUE]
  /\ recReqs' = recReqs (+) SetToBag({RecRequest(requestData(rec.formData))})
  /\ last' = Ev("recSubmit", "")
  /\ UNCHANGED << appVars, origin, session, authForm, dash, loader, authReqs, dashReqs >>

\* handleSubmit up to the await; the submit button is disabled={loading}
handleSubmit ==
  /\ RecMounted
  /\ ~rec.loading
  /\ BagCardinality(recReqs) < MaxRecReqs
  /\ rec' = [rec EXCEPT !.loading = TRUE]
  /\ recReqs' = recReqs (+) SetToBag({RecRequest(requestData(rec.formData))})
  /\ last' = Ev("recSubmit", "")
  /\ UNCHANGED << appVars, origin, session, authForm, dash, loader, authReqs, dashReqs >>

\* Variant: the answer is appended, setRecommendations([...recommendations, ...new])
handleSubmitFulfilled_appends(req, recommendations) ==
  /\ BagIn(req, recReqs)
  /\ recReqs' = recReqs (-) SetToBag({req})
  /\ rec' = IF req.live
            THEN [rec EXCEPT
                    !.recommendations = rec.recommendations \o recommendations,
                    !.loading = FALSE]
            ELSE rec
  /\ last' = IF req.live
             THEN RecEv("recFulfilled", "live", rec.recommendations, recommendations)
             ELSE Ev("recResponse", "late")
  /\ UNCHANGED << appVars, origin, session, authForm, dash, loader, authReqs, dashReqs >>

\* handleSubmit after the await, fulfilled: setRecommendations, then finally
handleSubmitFulfilled(req, recommendations) ==
  /\ BagIn(req, recReqs)
  /\ recReqs' = recReqs (-) SetToBag({req})
  /\ rec' = IF req.live
            THEN [rec EXCEPT !.recommendations = recommendations,
                             !.loading = FALSE]
            ELSE rec
  /\ last' = IF req.live
             THEN RecEv("recFulfilled", "live", rec.recommendations, recommendations)
             ELSE Ev("recResponse", "late")
  /\ UNCHANGED << appVars, origin, session, authForm, dash, loader, authReqs, dashReqs >>

\* Variant: the catch block clears the results, setRecommendations([])
handleSubmitRejected_clears(req) ==
  /\ BagIn(req, recReqs)
  /\ recReqs' = recReqs (-) SetToBag({req})
  /\ rec' = IF req.live
            THEN [rec EXCEPT !.recommendations = <<>>, !.loading = FALSE]
            ELSE rec
  /\ last' = IF req.live
             THEN RecEv("recRejected", "live", rec.recommendations, <<>>)
             ELSE Ev("recResponse", "late")
  /\ UNCHANGED << appVars, origin, session, authForm, dash, loader, authReqs, dashReqs >>

\* Variant: without the finally block, loading stays set after a failure
handleSubmitRejected_staysLoading(req) ==
  /\ BagIn(req, recReqs)
  /\ recReqs' = recReqs (-) SetToBag({req})
  /\ rec' = rec
  /\ last' = IF req.live
             THEN RecEv("recRejected", "live", rec.recommendations, <<>>)
             ELSE Ev("recResponse", "late")
  /\ UNCHANGED << appVars, origin, session, authForm, dash, loader, authReqs, dashReqs >>

\* handleSubmit after the await, rejected: catch (console.error), then finally
handleSubmitRejected(req) ==
  /\ BagIn(req, recReqs)
  /\ recReqs' = recReqs (-) SetToBag({req})
  /\ rec' = IF req.live THEN [rec EXCEPT !.loading = FALSE] ELSE rec
  /\ last' = IF req.live
             THEN RecEv("recRejected", "live", rec.recommendations, <<>>)
             ELSE Ev("recResponse", "late")
  /\ UNCHANGED << appVars, origin, session, authForm, dash, loader, authReqs, dashReqs >>

\* what CareerRecommendations renders: the form, the spinner or the label of
\* the submit button, and the result cards when there are results
RecView ==
  IF ~RecMounted THEN {}
  ELSE {"form"}
       \cup (IF rec.loading THEN {"spinner"} ELSE {"submit label"})
       \cup (IF Len(rec.recommendations) > 0 THEN {"results"} ELSE {})

\* ------------------------------------------------------------ specification
VerifyResponse ==
  \/ \E u \in Identities : VerifyFulfilled(u)
  \/ \E reason \in Failures : VerifyRejected(reason)

AuthResponse ==
  \E req \in BagToSet(authReqs) :
    \/ \E tok \in Tokens, u \in Identities, stored \in BOOLEAN :
         onSubmitFulfilled(req, tok, u, stored)
    \/ \E detail \in Details : onSubmitRejected(req, detail)

DashResponse ==
  \E kind \in BagToSet(dashReqs) :
    \/ \E data \in DashPayloads(kind) : fetchDashboardData(kind, "fulfilled", data)
    \/ fetchDashboardData(kind, "rejected", DashInitial(kind))

RecResponse ==
  \E req \in BagToSet(recReqs) :
    \/ \E r \in RecResults : handleSubmitFulfilled(req, r)
    \/ handleSubmitRejected(req)

\* Form submissions of the main specification: a valid one and one with a
\* password that is too short
SampleInputs ==
  { FormData(<<"a", "@", "a", ".", "a", "a">>, p, <<"n", "n">>, "student") :
      p \in { <<>>, [i \in 1..PasswordMin |-> "p"] } }

UserAction ==
  \/ handleLogout
  \/ \E code \in languages : setCurrentLanguage(code)
  \/ \E mode \in {"null", "true", "false"} : setAuthMode(mode)
  \/ \E data \in SampleInputs : handleSubmitForm(data)
  \/ \E tab \in tabs : setActiveTab(tab)
  \/ handleSubmit

Next ==
  \/ AppMount
  \/ VerifyResponse
  \/ AuthResponse
  \/ DashResponse
  \/ RecResponse
  \/ UserAction

Spec == Init /\ [][Next]_vars

\* ----------------------------------------- specification of the normalization
\* The texts of at most MaxLen characters
Texts == UNION { [1..n -> Alphabet] : n \in 0..MaxLen }

\* The recommendation form as it is after a verified start and the selection
\* of the career tab
InitNorm ==
  /\ phase = "run"
  /\ storageAvail = TRUE
  /\ token = "t1"
  /\ authHeader = Bearer("t1")
  /\ user = [id |-> 1, role |-> "student", preferred_language |-> "hi"]
  /\ loading = FALSE
  /\ authMode = "null"
  /\ currentLanguage = "hi"
  /\ verifyPending = FALSE
  /\ authForm = AuthFormInitial
  /\ dash = [DashboardInitial EXCEPT !.activeTab = "career"]
  /\ loader = LoaderStarted
  /\ rec = RecInitial
  /\ authReqs = EmptyBag
  /\ dashReqs = DashRequests
  /\ recReqs = EmptyBag
  /\ origin = Answer("t1", user)
  /\ last = Ev("tab", "career")

\* The user types one text into one input of the untouched form, while no
\* request is in flight
TypeOneText ==
  /\ rec.formData = FormDataInitial
  /\ recReqs = EmptyBag
  /\ \E f \in TextFields, text \in Texts : setFormData(f, text)

NextNorm ==
  \/ TypeOneText
  \/ handleSubmit
  \/ RecResponse

SpecNorm == InitNorm /\ [][NextNorm]_vars

\* ------------------- specification of the recommendation form and the tabs
\* Texts typed into the interests input
SampleTexts == { <<>>, <<"a", ",", "b">> }

\* The Dashboard with its tabs and the recommendation form: typing, submits,
\* answers and tab selections in any order
NextTabs ==
  \/ \E text \in SampleTexts : setFormData("interests", text)
  \/ \E level \in AcademicLevels : setFormData("academic_level", level)
  \/ \E tab \in tabs : setActiveTab(tab)
  \/ handleSubmit
  \/ RecResponse

SpecTabs == InitNorm /\ [][NextTabs]_vars

\* ------------------------------- specification of the form validation
\* the email texts the browser lets through
Emails ==
  { e \in UNION { [1..n -> EmailAlphabet] : n \in 0..MaxEmailLen } : typeEmail(e) }
Passwords == { [i \in 1..n |-> "p"] : n \in 0..MaxPasswordLen }
Names == { [i \in 1..n |-> "n"] : n \in 0..MaxNameLen }

\* what can be submitted through the inputs of the login form and of the
\* registration form
LoginInputs == { LoginData(e, p) : e \in Emails, p \in Passwords }
RegisterInputs ==
  { FormData(e, p, n, r) : e \in Emails, p \in Passwords, n \in Names, r \in Roles }

\* The login or registration form just opened from the landing page
InitAuth ==
  /\ phase = "run"
  /\ storageAvail = TRUE
  /\ token = NoToken
  /\ authHeader = NoHeader
  /\ user = NoUser
  /\ loading = FALSE
  /\ authMode \in {"true", "false"}
  /\ currentLanguage = "en"
  /\ verifyPending = FALSE
  /\ authForm = AuthFormInitial
  /\ dash = DashboardInitial
  /\ loader = LoaderIdle
  /\ rec = RecInitial
  /\ authReqs = EmptyBag
  /\ dashReqs = EmptyBag
  /\ recReqs = EmptyBag
  /\ origin = NoAnswer
  /\ last = Ev("authMode", "")

\* The first submission of the form carries any values; the later ones are
\* drawn from the samples
FirstSubmit ==
  /\ last.ev = "authMode"
  /\ \/ authMode = "true" /\ \E data \in LoginInputs : handleSubmitForm(data)
     \/ authMode = "false" /\ \E data \in RegisterInputs : handleSubmitForm(data)

NextAuth ==
  \/ FirstSubmit
  \/ last.ev /= "authMode" /\ \E data \in SampleInputs : handleSubmitForm(data)
  \/ AuthResponse

SpecAuth == InitAuth /\ [][NextAuth]_vars


\* ================================================================== claims
\* number of the requests of a bag whose issuing instance is still mounted
LiveCount(reqs) ==
  LET liveOnes == {r \in BagToSet(reqs) : r.live}
  IN BagCardinality([r \in liveOnes |-> reqs[r]])

\* C1: when exactly one of the three dashboard fetches fails and the other two
\* succeed, the Dashboard holds the data of the two successful fetches.
C1_PartialFailureKeepsOthers ==
  \A failed \in DashKinds :
    ( /\ DashboardMounted
      /\ loader.status[failed] = "rejected"
      /\ \A k \in DashKinds \ {failed} : loader.status[k] = "fulfilled" )
    => \A k \in DashKinds \ {failed} : dash[k] = loader.data[k]

\* C2 (as claimed): in every reachable state, the calls in flight included, a
\* user is present if and only if the Authorization header is set.
C2_IdentityIffHeader ==
  (user /= NoUser) <=> (authHeader /= NoHeader)

\* C2 (amended): once App has left its loading state a user is present if and
\* only if the Authorization header is set; while the stored token is being
\* verified App is loading, no user is present and the header carries the
\* stored token.
C2_IdentityIffHeaderOnceLoaded ==
  /\ ~loading => ((user /= NoUser) <=> (authHeader /= NoHeader))
  /\ verifyPending =>
       (loading /\ user = NoUser /\ token /= NoToken /\ authHeader = Bearer(token))

\* a session established by a login or registration answer
C2_SessionEstablished ==
  /\ last.ev = "authFulfilled"
  /\ ~loading
  /\ user \in Identities
  /\ authHeader /= NoHeader

\* C3: after App's mount effect, in every state (each is one between two
\* handlers), the Authorization header is "Bearer <token>" of the stored token,
\* and is unset exactly when no token is stored.
C3_HeaderMatchesStorage ==
  phase /= "boot" =>
    authHeader = (IF token = NoToken THEN NoHeader ELSE Bearer(token))

\* a login or registration answer has replaced the credential
C3_CredentialWritten ==
  /\ last.ev = "authFulfilled"
  /\ token \in Tokens
  /\ authHeader = Bearer(token)

\* the answer to a login or registration request whose AuthForm is unmounted
LateAuthAnswer ==
  /\ BagCardinality(authReqs') < BagCardinality(authReqs)
  /\ last'.ev \in {"authFulfilled", "authFailed"}
  /\ last'.outcome = "late"

\* C4: the answer to a login or registration request whose form is no longer
\* mounted (the user went back, or logged in otherwise and logged out) changes
\* neither the stored token, the header, the user nor the language.
C4_LateResponseIgnored ==
  [][LateAuthAnswer => UNCHANGED session]_vars

\* C5: after a rejected answer to the mounted recommendation form, the held
\* recommendations are those held before the answer.
C5_FailureKeepsResults ==
  last.ev = "recRejected" => rec.recommendations = last.prev

\* a rejected answer has arrived while results were displayed
C5_FailedWithResults ==
  /\ last.ev = "recRejected"
  /\ RecMounted
  /\ Len(last.prev) > 0

\* C6: after a rejected answer to the mounted recommendation form, the form
\* renders an error.
C6_FailureShowsError ==
  last.ev = "recRejected" => "error" \in RecView

\* C7: the mounted recommendation form has at most one request in flight, it
\* has one exactly while it is loading, and while it is loading a submit is
\* not possible.
C7_OneInFlight ==
  /\ LiveCount(recReqs) <= 1
  /\ (LiveCount(recReqs) = 1) <=> (RecMounted /\ rec.loading)
  /\ rec.loading => ~ENABLED handleSubmit

\* the form is loading although another request could still be issued
C7_Submitting ==
  /\ RecMounted
  /\ rec.loading
  /\ LiveCount(recReqs) = 1
  /\ BagCardinality(recReqs) < MaxRecReqs

\* C8: after a fulfilled answer to the mounted recommendation form, the held
\* recommendations are exactly the list of the answer.
C8_SuccessReplaces ==
  last.ev = "recFulfilled" => rec.recommendations = last.response

\* a fulfilled answer has arrived while other results were displayed
C8_ReplacedResults ==
  /\ last.ev = "recFulfilled"
  /\ Len(last.prev) > 0
  /\ last.prev /= last.response
  /\ rec.recommendations = last.response

\* the comma-separated segments of a text, read off the positions of its commas
RECURSIVE Ascending(_)
Ascending(S) ==
  IF S = {} THEN <<>>
  ELSE LET m == CHOOSE x \in S : \A y \in S : x <= y
       IN <<m>> \o Ascending(S \ {m})
Blank(seg) == \A i \in 1..Len(seg) : seg[i] \in Whitespace
Trimmed(seg) ==
  LET solid == {i \in 1..Len(seg) : seg[i] \notin Whitespace}
  IN IF solid = {} THEN <<>>
     ELSE SubSeq(seg, CHOOSE i \in solid : \A j \in solid : i <= j,
                      CHOOSE i \in solid : \A j \in solid : i >= j)
Segments(text) ==
  LET commas == {i \in 1..Len(text) : text[i] = ","}
      starts == Ascending({0} \cup commas)
      stop(p) == CHOOSE q \in commas \cup {Len(text) + 1} :
                   /\ q > p
                   /\ \A c \in commas : c > p => q <= c
  IN [i \in 1..Len(starts) |-> SubSeq(text, starts[i] + 1, stop(starts[i]) - 1)]
TrimmedSegments(text) ==
  LET segs == Segments(text)
      kept == {i \in 1..Len(segs) : ~Blank(segs[i])}
      order == Ascending(kept)
  IN [i \in 1..Len(order) |-> Trimmed(segs[order[i]])]
ListFields == {"interests", "subjects", "strengths", "career_goals"}

\* C9: each list of a request sent to the recommendation endpoint is the
\* sequence of the comma-separated segments of the field's text, each trimmed,
\* without the empty and whitespace-only ones, in their order; none of its
\* elements is empty or whitespace-only.
C9_Normalized ==
  \A req \in BagToSet(recReqs) : \A f \in ListFields :
    /\ req.data[f] = TrimmedSegments(rec.formData[f])
    /\ \A i \in 1..Len(req.data[f]) : ~Blank(req.data[f][i])

\* a request of a text with three segments, one of them dropped
C9_SegmentDropped ==
  \E req \in BagToSet(recReqs) :
    /\ Len(Segments(rec.formData.interests)) = 3
    /\ Len(req.data.interests) = 2
    /\ req.data.interests[1] /= req.data.interests[2]

\* a step of handleLogout
LogoutStep == last.ev /= "logout" /\ last'.ev = "logout"

\* C10: a logout leaves no user, no stored token and no header, and the
\* language as it was.
C10_LogoutKeepsLanguage ==
  [][LogoutStep =>
       /\ user' = NoUser
       /\ token' = NoToken
       /\ authHeader' = NoHeader
       /\ currentLanguage' = currentLanguage]_vars

\* logged out with a language that only the selector can have set
C10_LoggedOut ==
  /\ last.ev = "logout"
  /\ user = NoUser
  /\ token = NoToken
  /\ currentLanguage = "ks"

\* the fields of a submission that violate a check of the form's mode
CheckedFields ==
  IF authMode = "true" THEN {"email", "password"}
  ELSE {"email", "password", "full_name", "role"}
Violates(f, data) ==
  CASE f = "email"     -> ~email(data.email)
    [] f = "password"  -> Len(data.password) < 6
    [] f = "full_name" -> Len(data.full_name) < 2
    [] f = "role"      -> data.role \notin {"student", "parent", "counselor", "admin"}
Violated(data) == {f \in CheckedFields : Violates(f, data)}

\* C11: a login or registration submission that violates a check issues no
\* request and leaves the session as it was, and the errors of the form have
\* a message for exactly the violated fields; a request is issued only for a
\* submission that violates none.
C11_ValidationBeforeNetwork ==
  /\ [](last.ev = "authInvalid" =>
          /\ Violated(last.data) /= {}
          /\ DOMAIN authForm.errors = Violated(last.data)
          /\ \A f \in DOMAIN authForm.errors : authForm.errors[f] = Messages[f]
          /\ ~authForm.loading)
  /\ [](last.ev = "authSubmit" => Violated(last.data) = {})
  /\ [][last'.ev = "authInvalid" =>
          UNCHANGED << session, netVars, verifyPending >>]_vars

\* a registration refused for an email the browser lets through and a full
\* name that is too short, its password being long enough
C11_TwoFieldsRefused ==
  /\ last.ev = "authInvalid"
  /\ authMode = "false"
  /\ last.data.email /= <<>>
  /\ Len(last.data.password) >= 6
  /\ DOMAIN authForm.errors = {"email", "full_name"}
  /\ authReqs = EmptyBag

\* C12: when a session is established (verification, login or registration
\* answered with a user object) the user is the object of the answer and the
\* language is its preferred_language, or "en" when it has none, whatever the
\* language was before.
C12_SessionFromAnswer ==
  (last.ev = "authFulfilled" \/ (last.ev = "verify" /\ last.outcome = "fulfilled"))
  => /\ last.response \in Identities
     /\ user = last.response
     /\ currentLanguage =
          (IF last.response.preferred_language = NoLang
           THEN "en" ELSE last.response.preferred_language)

\* a login answered with a user without preferred_language while another
\* language was selected
C12_SelectionOverridden ==
  /\ last.ev = "authFulfilled"
  /\ last.outcome = "live"
  /\ last.prev = "ks"
  /\ last.response.preferred_language = NoLang
  /\ currentLanguage = "en"

\* C13: after the verification of the stored token has failed with
\* Unauthorized, no token is stored, no header is set, no user is present,
\* App is not loading and shows the landing page.
C13_UnauthorizedClearsSession ==
  (last.ev = "verify" /\ last.outcome = "Unauthorized")
  => /\ token = NoToken
     /\ authHeader = NoHeader
     /\ user = NoUser
     /\ ~loading
     /\ LandingMounted
     /\ ~verifyPending

\* the stored token has been refused
C13_TokenRefused ==
  /\ last.ev = "verify"
  /\ last.outcome = "Unauthorized"
  /\ storageAvail
  /\ phase = "run"
  /\ token = NoToken

\* a remote call that fails: the verification in transport or with 5xx, a
\* login or registration, a dashboard fetch, a recommendation request
FailedCall ==
  \/ last'.ev = "verify" /\ last'.outcome = "NetworkOrServerError"
  \/ last'.ev \in {"authRejected", "authFailed", "recRejected"}
  \/ /\ last'.ev = "dashResponse"
     /\ \E k \in DashKinds :
          loader.status[k] = "pending" /\ loader'.status[k] = "rejected"

\* C14: a remote call that fails with a transport or server error changes
\* neither the stored token, the header nor the user, and no request is issued
\* by the failure.
C14_FailureKeepsSession ==
  [][FailedCall =>
       /\ UNCHANGED << token, authHeader, user >>
       /\ ~verifyPending'
       /\ BagCardinality(authReqs') <= BagCardinality(authReqs)
       /\ BagCardinality(dashReqs') <= BagCardinality(dashReqs)
       /\ BagCardinality(recReqs') <= BagCardinality(recReqs)]_vars

\* the requests in flight
InFlight ==
  BagCardinality(authReqs) + BagCardinality(dashReqs) + BagCardinality(recReqs)
  + (IF verifyPending THEN 1 ELSE 0)

\* C15: a change of language through the selector sets the language to the
\* selected value, issues no request and changes nothing else, with or
\* without a user.
C15_LanguageOnly ==
  [][last'.ev = "language" =>
       /\ currentLanguage' = last'.outcome
       /\ last'.outcome \in languages
       /\ UNCHANGED << user, token, authHeader, dash, loader, rec, authForm,
                       authMode, loading, phase, verifyPending, netVars >>]_vars

\* the language changed while the career tab shows results
C15_ChangedWithResults ==
  /\ last.ev = "language"
  /\ currentLanguage = "ks"
  /\ RecMounted
  /\ Len(rec.recommendations) > 0
  /\ dash.scholarships /= <<>>

\* C16: whenever the Dashboard appears (after the verification, a login or a
\* registration, also after a logout) its active tab is overview.
C16_EntryOnOverview ==
  [][(~DashboardMounted /\ DashboardMounted') =>
       dash'.activeTab = "overview"]_vars

\* the Dashboard entered by a login while a recommendation request of an
\* earlier session, issued from the career tab, is still in flight
C16_EnteredAgain ==
  /\ last.ev = "authFulfilled"
  /\ last.outcome = "live"
  /\ DashboardMounted
  /\ dash.activeTab = "overview"
  /\ recReqs /= EmptyBag

\* C17: while the Dashboard stays mounted its active tab changes only by a
\* tab selection; a selection makes the selected tab active and issues no
\* request, and the selection of the active tab changes nothing.
C17_TabOnlyBySelection ==
  /\ [][(DashboardMounted /\ DashboardMounted'
           /\ dash'.activeTab /= dash.activeTab) => last'.ev = "tab"]_vars
  /\ [][last'.ev = "tab" =>
          /\ dash'.activeTab = last'.outcome
          /\ InFlight' <= InFlight
          /\ UNCHANGED << session, authMode, loader, dashReqs, authReqs >>
          /\ dash.activeTab = last'.outcome =>
                UNCHANGED << origin, phase, storageAvail, token, authHeader, user,
                             loading, authMode, currentLanguage, verifyPending,
                             authForm, dash, loader, rec, authReqs, dashReqs,
                             recReqs >>]_vars

\* the career tab selected again while its form holds results and waits for
\* an answer
C17_SameTabSelected ==
  /\ last.ev = "tab"
  /\ last.outcome = "career"
  /\ rec.loading
  /\ Len(rec.recommendations) > 0
  /\ LiveCount(recReqs) = 1

\* number of copies of an element in a bag
Copies(e, bag) == IF BagIn(e, bag) THEN bag[e] ELSE 0

\* C18: the mounted Dashboard has issued each of its three requests exactly
\* once: each is either in flight or answered, never both and never twice;
\* a tab selection issues none.
C18_LoaderOncePerEntry ==
  /\ [](DashboardMounted =>
          \A k \in DashKinds :
            /\ loader.status[k] /= "none"
            /\ Copies(k, dashReqs) = (IF loader.status[k] = "pending" THEN 1 ELSE 0))
  /\ [][last'.ev = "tab" => UNCHANGED << loader, dashReqs >>]_vars

\* a tab selected after all three requests were answered
C18_TabAfterLoad ==
  /\ last.ev = "tab"
  /\ last.outcome = "scholarships"
  /\ dashReqs = EmptyBag
  /\ loader.all = "fulfilled"

\* C19: as soon as one of the three dashboard fetches has succeeded the
\* Dashboard holds its data, also while the others are still in flight.
C19_EachRendersAsItCompletes ==
  DashboardMounted =>
    \A k \in DashKinds :
      loader.status[k] = "fulfilled" => dash[k] = loader.data[k]

\* C20: a submit of the idle recommendation form is possible whatever the
\* fields hold, and issues exactly one request.
C20_EmptyFormIsSent ==
  /\ []((RecMounted /\ ~rec.loading /\ BagCardinality(recReqs) < MaxRecReqs)
          => ENABLED handleSubmit)
  /\ [][last'.ev = "recSubmit" =>
          /\ BagCardinality(recReqs') = BagCardinality(recReqs) + 1
          /\ LiveCount(recReqs') = 1
          /\ UNCHANGED << authReqs, dashReqs, verifyPending >>]_vars

\* a request whose lists are all empty, sent for a form whose interests hold
\* nothing but blanks and a comma
C20_AllEmptySent ==
  /\ last.ev = "recSubmit"
  /\ rec.formData.interests /= <<>>
  /\ \E req \in BagToSet(recReqs) :
       /\ req.live
       /\ \A f \in ListFields : req.data[f] = <<>>

\* C21: the language is one of en, hi, ks in every state, whatever user object
\* the service answers with.
C21_LanguageInSet ==
  currentLanguage \in {"en", "hi", "ks"}

\* C22: when localStorage cannot be used the application, once its mount
\* effect has run, is out of loading and shows the unauthenticated view; it is
\* neither crashed nor loading.
C22_StorageFailureDegrades ==
  (~storageAvail /\ phase /= "boot")
  => /\ phase = "run"
     /\ ~loading
     /\ user = NoUser
     /\ LandingMounted \/ AuthFormMounted

\* C23: the stored token is replaced only by the token of a fulfilled login
\* or registration answer, and removed only by a logout or a failed
\* verification; every other step leaves it as it is.
C23_TokenWriters ==
  [][token' /= token =>
       \/ /\ last'.ev \in {"authFulfilled", "authStored"}
          /\ token' \in Tokens
       \/ /\ last'.ev = "logout"
          /\ token' = NoToken
       \/ /\ last'.ev = "verify"
          /\ last'.outcome \in Failures
          /\ token' = NoToken]_vars

\* a login refused while a token is stored: the form was left for another
\* one, whose login was answered first
C23_RefusedWithToken ==
  /\ last.ev = "authFailed"
  /\ token \in Tokens
  /\ DashboardMounted

\* what the form shows above its inputs: {error && <div>{error}</div>}
Banner == IF authForm.error = "" THEN <<>> ELSE <<authForm.error>>

\* C24: after the service has rejected the login or registration of the
\* mounted form, the form shows one message, the detail of the answer, and is
\* not submitting; no token is stored, no header set, no user present; the
\* rejection changes none of these, and a submission that starts clears the
\* message.
C24_RejectionShown ==
  /\ []((last.ev = "authRejected" /\ last.response /= NoDetail) =>
          /\ AuthFormMounted
          /\ Banner = <<last.response>>
          /\ ~authForm.loading
          /\ token = NoToken /\ authHeader = NoHeader /\ user = NoUser)
  /\ [](last.ev = "authSubmit" => (Banner = <<>> /\ authForm.loading))
  /\ [][last'.ev = "authRejected" => UNCHANGED << token, authHeader, user >>]_vars

\* the login of the mounted form refused with the message of the service
C24_Refused ==
  /\ last.ev = "authRejected"
  /\ last.response = "Invalid credentials"
  /\ authForm.error = "Invalid credentials"
  /\ AuthFormMounted

\* the states of the recommendation workflow
Workflow == IF rec.loading THEN "submitting" ELSE "idle"

\* C25: a submit takes the mounted recommendation form from idle to
\* submitting; the answer to its request, fulfilled or rejected, takes it
\* back to idle, where a submit is possible again; the form is submitting
\* only while its request is in flight.
C25_IdleSubmittingIdle ==
  /\ [][last'.ev = "recSubmit" =>
          (Workflow = "idle" /\ Workflow' = "submitting")]_vars
  /\ [][last'.ev \in {"recFulfilled", "recRejected"} =>
          (Workflow = "submitting" /\ Workflow' = "idle")]_vars
  /\ []((RecMounted /\ Workflow = "submitting") => LiveCount(recReqs) = 1)
  /\ []((RecMounted /\ Workflow = "idle" /\ BagCardinality(recReqs) < MaxRecReqs)
          => ENABLED handleSubmit)

\* back in idle after a failure, with a submit possible
C25_IdleAfterFailure ==
  /\ last.ev = "recRejected"
  /\ RecMounted
  /\ Workflow = "idle"
  /\ ENABLED handleSubmit

\* C26: while the application shows a user, the stored token and the user
\* come from the same answer: the login or registration answer that delivered
\* both, or the verification of that token; also when requests of several
\* forms are answered in any order.
C26_TokenAndUserFromOneAnswer ==
  (phase = "run" /\ user /= NoUser) =>
    /\ origin /= NoAnswer
    /\ token = origin.token
    /\ user = origin.user
    /\ authHeader = Bearer(origin.token)

\* the answer to the request of a form that was left has replaced the session
\* of another login, while a third request is still in flight
C26_AnsweredOutOfOrder ==
  /\ last.ev = "authFulfilled"
  /\ last.outcome = "late"
  /\ DashboardMounted
  /\ user = origin.user /\ token = origin.token
  /\ authReqs /= EmptyBag

\* C27: App starts loading; while it is loading nothing is rendered and no
\* user action is possible; after the mount effect it is loading exactly
\* while the verification is in flight (not at all when no token is stored);
\* loading ends only by the mount effect or the answer to the verification,
\* and never begins again.
C27_LoadingGate ==
  /\ [](phase = "boot" => loading)
  /\ [](loading => (~Rendered /\ ~ENABLED UserAction))
  /\ [](phase = "run" => (loading <=> verifyPending))
  /\ [][(loading /\ ~loading') =>
          \/ last'.ev = "AppMount" /\ token = NoToken
          \/ last'.ev = "verify" /\ verifyPending /\ ~verifyPending']_vars
  /\ [][~loading => ~loading']_vars

\* loading has ended with the failure of the verification
C27_LeftLoading ==
  /\ last.ev = "verify"
  /\ last.outcome = "NetworkOrServerError"
  /\ ~loading
  /\ Rendered
  /\ ENABLED UserAction

\* C28: the three collections of the Dashboard either all hold their initial
\* empty values or all hold the data of their fulfilled fetches; never one
\* the data of its fetch and another its initial value.
C28_AllTogetherOrNotAtAll ==
  \/ \A k \in DashKinds : dash[k] = DashInitial(k)
  \/ /\ DashboardMounted
     /\ \A k \in DashKinds :
          /\ loader.status[k] = "fulfilled"
          /\ dash[k] = loader.data[k]
          /\ dash[k] /= DashInitial(k)

\* the third fetch has been answered and the three collections are set
C28_AllSet ==
  /\ last.ev = "dashResponse"
  /\ loader.all = "fulfilled"
  /\ \A k \in DashKinds : dash[k] \in DashPayloads(k)

\* a tab selection that takes the Dashboard to the career tab from another
EntersCareer ==
  /\ last'.ev = "tab"
  /\ dash.activeTab /= "career"
  /\ dash'.activeTab = "career"

\* C29: the recommendation form that appears with the career tab is a fresh
\* one: no results, no input, not loading, a submit possible, also while a
\* request of an earlier form is in flight; leaving the tab leaves the earlier
\* form's request without a form; and the late answer to such a request
\* changes nothing of the form now shown.
C29_FreshFormPerVisit ==
  /\ [][EntersCareer => (rec' = RecInitial /\ LiveCount(recReqs') = 0)]_vars
  /\ []((last.ev = "tab" /\ RecMounted /\ LiveCount(recReqs) = 0
          /\ BagCardinality(recReqs) < MaxRecReqs) => ENABLED handleSubmit)
  /\ [](~RecMounted => (rec = RecInitial /\ LiveCount(recReqs) = 0))
  /\ [][last'.ev = "recResponse" =>
          (UNCHANGED rec /\ LiveCount(recReqs') = LiveCount(recReqs))]_vars

\* the late answer to the request of an earlier form has arrived while the
\* form now shown holds input of its own and waits for its own answer
C29_LateAnswerToEarlierForm ==
  /\ last.ev = "recResponse"
  /\ RecMounted
  /\ rec.loading
  /\ rec.recommendations = <<>>
  /\ rec.formData.interests /= <<>>
  /\ LiveCount(recReqs) = 1

\* C30: after a fulfilled login or registration and after a logout the
\* auth mode is landing, and right after a logout the landing page is shown;
\* the auth mode is changed otherwise only by setAuthMode of the landing page
\* and of the buttons under the form, which exist only while no user is
\* present.
C30_AuthModeReset ==
  /\ [](last.ev \in {"authFulfilled", "logout"} => authMode = "null")
  /\ [](last.ev = "logout" => (LandingMounted /\ ~AuthFormMounted))
  /\ [][authMode' /= authMode =>
          \/ last'.ev = "authFulfilled" /\ authMode' = "null"
          \/ /\ last'.ev = "authMode"
             /\ user = NoUser /\ user' = NoUser
             /\ LandingMounted \/ AuthFormMounted]_vars

\* logged out after a login through the form: the landing page is shown
C30_LandingAfterLogout ==
  /\ last.ev = "logout"
  /\ LandingMounted
  /\ authMode = "null"
  /\ authReqs /= EmptyBag

=============================================================================
